---------------------------- MODULE Spec2Model ----------------------------
(***************************************************************************)
(* Model of python/az/aro/azext_aro/_validators.py: the argument           *)
(* validators of the `az aro` CLI extension.                               *)
(*                                                                         *)
(* Representation of values.                                               *)
(*   - An optional value is None (the empty tuple) or Some(v) (a 1-tuple). *)
(*   - A resource path (subnet, vnet, identity, disk encryption set,       *)
(*     resource group name, subscription) is the sequence of its           *)
(*     "/"-separated segments: "/subscriptions/s" is <<"", "subscriptions",*)
(*     "s">>, the bare name "a" is <<"a">>, the empty string is <<"">>.    *)
(*     The regular expressions of msrestazure.tools only use the class     *)
(*     [^/] and case-insensitive literal segments, so they are modelled    *)
(*     segment by segment.                                                 *)
(*   - Every other string (version, visibility, cidr, domain, client id)   *)
(*     is the sequence of its characters.                                  *)
(***************************************************************************)
EXTENDS Integers, Sequences, FiniteSets, TLC

None == <<>>
Some(v) == <<v>>
IsNone(o) == o = <<>>
Val(o) == o[1]

(***************************************************************************)
(* Segments and str.lower() on them.                                       *)
(***************************************************************************)
LowerTok(t) ==
    CASE t = "Subscriptions" -> "subscriptions"
      [] t = "resourceGroups" -> "resourcegroups"
      [] t = "Providers" -> "providers"
      [] t = "Microsoft.Network" -> "microsoft.network"
      [] t = "MICROSOFT.NETWORK" -> "microsoft.network"
      [] t = "Microsoft.Compute" -> "microsoft.compute"
      [] t = "Microsoft.ManagedIdentity" -> "microsoft.managedidentity"
      [] t = "virtualNetworks" -> "virtualnetworks"
      [] t = "VirtualNetworks" -> "virtualnetworks"
      [] t = "routeTables" -> "routetables"
      [] t = "diskEncryptionSets" -> "diskencryptionsets"
      [] t = "userAssignedIdentities" -> "userassignedidentities"
      [] t = "Subnets" -> "subnets"
      [] t = "RG" -> "rg"
      [] t = "VNET" -> "vnet"
      [] t = "A" -> "a"
      [] t = "B" -> "b"
      [] OTHER -> t

\* str.lower() of a path
LowerStr(s) == [i \in 1..Len(s) |-> LowerTok(s[i])]

\* a one-segment string
Str(t) == <<t>>

\* Python truthiness of a string: the empty string is falsy
EmptyStr == <<"">>

(***************************************************************************)
(* msrestazure.tools: parse_resource_id, resource_id, is_valid_resource_id *)
(* A parsed id is a Python dict: a function from the keys present to       *)
(* their values (keys whose value is None are dropped).                    *)
(***************************************************************************)
ChildKey(base, k) == base \o "_" \o ToString(k)

EmptyDict == [k \in {} |-> <<>>]

\* _CHILDREN_RE.finditer over the segments c from index i on: the matches of
\* '(/providers/<ns>)?/<type>/<name>' (<ns>, <name> non-empty), left to right.
\* A match with the optional group is tried first; a segment where neither
\* form matches is skipped.
RECURSIVE ChildMatches(_, _)
ChildMatches(c, i) ==
    IF i > Len(c) THEN <<>>
    ELSE IF /\ i + 3 <= Len(c)
            /\ LowerTok(c[i]) = "providers"
            /\ c[i + 1] # ""
            /\ c[i + 3] # ""
         THEN <<("child_namespace" :> Str(c[i + 1]))
                @@ ("child_type" :> Str(c[i + 2]))
                @@ ("child_name" :> Str(c[i + 3]))>>
              \o ChildMatches(c, i + 4)
    ELSE IF i + 1 <= Len(c) /\ c[i + 1] # ""
         THEN <<("child_type" :> Str(c[i])) @@ ("child_name" :> Str(c[i + 1]))>>
              \o ChildMatches(c, i + 2)
    ELSE ChildMatches(c, i + 1)

\* result.update({key + '_%d' % (count + 1): group ...}) for each match
RECURSIVE NumberChildren(_, _)
NumberChildren(list, k) ==
    IF k > Len(list) THEN EmptyDict
    ELSE (IF "child_namespace" \in DOMAIN list[k]
          THEN (ChildKey("child_namespace", k) :> list[k]["child_namespace"])
          ELSE EmptyDict)
         @@ (ChildKey("child_type", k) :> list[k]["child_type"])
         @@ (ChildKey("child_name", k) :> list[k]["child_name"])
         @@ NumberChildren(list, k + 1)

parse_resource_id(rid) ==
    IF IsNone(rid) \/ Val(rid) = EmptyStr THEN EmptyDict
    ELSE
    LET s == Val(rid)
        n == Len(s)
        matched == /\ n >= 3
                   /\ s[1] = ""
                   /\ LowerTok(s[2]) = "subscriptions"
                   /\ s[3] # ""
        hasRG == /\ n >= 5
                 /\ LowerTok(s[4]) = "resourcegroups"
                 /\ s[5] # ""
        p == IF hasRG THEN 6 ELSE 4
        hasProv == /\ n >= p + 3
                   /\ LowerTok(s[p]) = "providers"
                   /\ s[p + 1] # ""
                   /\ s[p + 3] # ""
        children == IF hasProv THEN SubSeq(s, p + 4, n) ELSE <<>>
        kids == ChildMatches(children, 1)
    IN  IF ~matched THEN ("name" :> s)
        ELSE ("subscription" :> Str(s[3]))
             @@ (IF hasRG THEN ("resource_group" :> Str(s[5])) ELSE EmptyDict)
             @@ (IF hasProv
                 THEN ("namespace" :> Str(s[p + 1]))
                      @@ ("type" :> Str(s[p + 2]))
                      @@ ("name" :> Str(s[p + 3]))
                 ELSE EmptyDict)
             @@ (IF Len(kids) >= 1
                 THEN ("last_child_num" :> Len(kids)) @@ NumberChildren(kids, 1)
                 ELSE EmptyDict)

\* the child part of resource_id: the loop ends at the first KeyError
RECURSIVE ResourceIdChildren(_, _)
ResourceIdChildren(kw, k) ==
    LET ns == IF ChildKey("child_namespace", k) \in DOMAIN kw
              THEN <<"providers">> \o kw[ChildKey("child_namespace", k)]
              ELSE <<>>
    IN  IF /\ ChildKey("child_type", k) \in DOMAIN kw
           /\ ChildKey("child_name", k) \in DOMAIN kw
        THEN ns \o kw[ChildKey("child_type", k)] \o kw[ChildKey("child_name", k)]
                \o ResourceIdChildren(kw, k + 1)
        ELSE ns

\* resource_id(**kw); the caller supplies "subscription" (KeyError otherwise)
resource_id(kw) ==
    <<"", "subscriptions">> \o kw["subscription"]
    \o (IF "resource_group" \in DOMAIN kw
        THEN <<"resourceGroups">> \o kw["resource_group"] ELSE <<>>)
    \o (IF "namespace" \notin DOMAIN kw THEN <<>>
        ELSE <<"providers">> \o kw["namespace"]
             \o (IF "type" \in DOMAIN kw /\ "name" \in DOMAIN kw
                 THEN kw["type"] \o kw["name"] \o ResourceIdChildren(kw, 1)
                 ELSE <<>>))

\* is_valid_resource_id(rid): falsy for None and "", and on KeyError
is_valid_resource_id(rid) ==
    /\ ~IsNone(rid)
    /\ Val(rid) # EmptyStr
    /\ LET parts == parse_resource_id(rid)
       IN  /\ "subscription" \in DOMAIN parts
           /\ LowerStr(resource_id(parts)) = LowerStr(Val(rid))

(***************************************************************************)
(* Character strings: sequences of one-character strings.                  *)
(***************************************************************************)
DigitSeq == <<"0", "1", "2", "3", "4", "5", "6", "7", "8", "9">>
Digits == {DigitSeq[i] : i \in 1..10}
DigitVal(c) == (CHOOSE i \in 1..10 : DigitSeq[i] = c) - 1

LowerLetters == <<"a", "b", "c", "d", "e", "f", "g", "h", "i", "j", "k", "l", "m",
                  "n", "o", "p", "q", "r", "s", "t", "u", "v", "w", "x", "y", "z">>
UpperLetters == <<"A", "B", "C", "D", "E", "F", "G", "H", "I", "J", "K", "L", "M",
                  "N", "O", "P", "Q", "R", "S", "T", "U", "V", "W", "X", "Y", "Z">>
IsLowerCh(c) == \E i \in 1..26 : LowerLetters[i] = c
IsUpperCh(c) == \E i \in 1..26 : UpperLetters[i] = c
UpperCh(c) == IF IsLowerCh(c)
              THEN UpperLetters[CHOOSE i \in 1..26 : LowerLetters[i] = c] ELSE c
LowerCh(c) == IF IsUpperCh(c)
              THEN LowerLetters[CHOOSE i \in 1..26 : UpperLetters[i] = c] ELSE c

\* str.capitalize(): first character upper-cased, the rest lower-cased
Capitalize(s) ==
    [i \in 1..Len(s) |-> IF i = 1 THEN UpperCh(s[i]) ELSE LowerCh(s[i])]

IsDigits(s) == \A i \in 1..Len(s) : s[i] \in Digits

\* int(s, 10) of a non-empty digit string
RECURSIVE ToNat(_)
ToNat(s) ==
    IF Len(s) = 0 THEN 0
    ELSE 10 * ToNat(SubSeq(s, 1, Len(s) - 1)) + DigitVal(s[Len(s)])

\* str.split(sep) for a one-character separator
RECURSIVE Split(_, _)
Split(s, sep) ==
    IF \A i \in 1..Len(s) : s[i] # sep THEN <<s>>
    ELSE LET i == CHOOSE j \in 1..Len(s) :
                      s[j] = sep /\ \A k \in 1..(j - 1) : s[k] # sep
         IN  <<SubSeq(s, 1, i - 1)>> \o Split(SubSeq(s, i + 1, Len(s)), sep)

\* In a Python regex '$' matches at the end and just before a final newline:
\* the bodies a pattern ending in '$' may have to match in full.
DollarBodies(s) ==
    {s} \cup (IF Len(s) >= 1 /\ s[Len(s)] = "\n"
              THEN {SubSeq(s, 1, Len(s) - 1)} ELSE {})

(***************************************************************************)
(* What a validator call yields: the namespace it leaves, how it ended     *)
(* (kind "ok", one of the four CLI error kinds, or the Python exception    *)
(* that escapes unwrapped), the source line of the raise, the duplicate    *)
(* names an error lists, and the remote calls it made.                     *)
(***************************************************************************)
Ok(ns) == [ns |-> ns, kind |-> "ok", line |-> 0, dups |-> {}, calls |-> <<>>]
Raise(ns, kind, line) ==
    [ns |-> ns, kind |-> kind, line |-> line, dups |-> {}, calls |-> <<>>]
WithCalls(out, calls) == [out EXCEPT !.calls = calls]

InvalidValue == "InvalidValue"          \* InvalidArgumentValueError
MissingRequired == "MissingRequired"    \* RequiredArgumentMissingError
MutuallyExclusive == "MutuallyExclusive" \* MutuallyExclusiveArgumentError
Internal == "Internal"                  \* CLIInternalError
CliErrorKinds == {InvalidValue, MissingRequired, MutuallyExclusive, Internal}

\* key.replace('_', '-') only shapes messages; keys stay as they are.

(***************************************************************************)
(* validate_cidr: ipaddress.IPv4Network(cidr), strict                      *)
(***************************************************************************)
\* IPv4Address._parse_octet
ValidOctet(o) ==
    /\ Len(o) >= 1
    /\ IsDigits(o)
    /\ Len(o) <= 3
    /\ (o = <<"0">> \/ o[1] # "0")
    /\ ToNat(o) <= 255

\* IPv4Address._ip_int_from_string, as the four octet values
ValidAddress(a) ==
    /\ Len(a) >= 1
    /\ LET octets == Split(a, ".")
       IN  Len(octets) = 4 /\ \A i \in 1..4 : ValidOctet(octets[i])
OctetsOf(a) == LET octets == Split(a, ".") IN [i \in 1..4 |-> ToNat(octets[i])]

\* the number of leading one bits of a netmask octet, -1 when not a mask octet
MaskOctetBits(v) ==
    CASE v = 0 -> 0 [] v = 128 -> 1 [] v = 192 -> 2 [] v = 224 -> 3
      [] v = 240 -> 4 [] v = 248 -> 5 [] v = 252 -> 6 [] v = 254 -> 7
      [] v = 255 -> 8 [] OTHER -> 0 - 1

\* _prefix_from_ip_int on four octets: ones followed by zeros only
IsNetmask(m) ==
    /\ \A i \in 1..4 : MaskOctetBits(m[i]) >= 0
    /\ \A i \in 1..3 : m[i] # 255 => m[i + 1] = 0
NetmaskPrefix(m) ==
    MaskOctetBits(m[1]) + MaskOctetBits(m[2]) + MaskOctetBits(m[3]) + MaskOctetBits(m[4])

\* _make_netmask: a decimal prefix length, else a dotted netmask, else a
\* dotted hostmask; -1 for NetmaskValueError
PrefixLen(p) ==
    IF Len(p) >= 1 /\ IsDigits(p)
    THEN (IF ToNat(p) <= 32 THEN ToNat(p) ELSE 0 - 1)
    ELSE IF ~ValidAddress(p) THEN 0 - 1
    ELSE LET m == OctetsOf(p)
             inv == [i \in 1..4 |-> 255 - m[i]]
         IN  IF IsNetmask(m) THEN NetmaskPrefix(m)
             ELSE IF IsNetmask(inv) THEN NetmaskPrefix(inv)
             ELSE 0 - 1

RECURSIVE Pow2(_)
Pow2(n) == IF n = 0 THEN 1 ELSE 2 * Pow2(n - 1)

\* the bits of octet i (1..4) that lie beyond a prefix of length p are zero
NoHostBits(octets, p) ==
    \A i \in 1..4 :
        LET h == IF 8 * i - p > 8 THEN 8 ELSE IF 8 * i - p < 0 THEN 0 ELSE 8 * i - p
        IN  octets[i] % Pow2(h) = 0

\* ipaddress.IPv4Network(cidr) returns (no ValueError)
IsIPv4Network(cidr) ==
    LET parts == Split(cidr, "/")
    IN  /\ Len(parts) <= 2
        /\ ValidAddress(parts[1])
        /\ IF Len(parts) = 1 THEN TRUE
           ELSE /\ PrefixLen(parts[2]) >= 0
                /\ NoHostBits(OctetsOf(parts[1]), PrefixLen(parts[2]))

validate_cidr(key, ns) ==
    LET cidr == ns[key]
    IN  IF IsNone(cidr) THEN Ok(ns)
        ELSE IF ~IsIPv4Network(Val(cidr)) THEN Raise(ns, InvalidValue, 36)
        ELSE Ok(ns)

(***************************************************************************)
(* validate_domain                                                         *)
(***************************************************************************)
IsAlnumLower(c) == IsLowerCh(c) \/ c \in Digits

\* [a-z0-9]|[a-z0-9][-a-z0-9]{0,61}[a-z0-9]
IsDnsLabel(l) ==
    /\ Len(l) >= 1
    /\ Len(l) <= 63
    /\ IsAlnumLower(l[1])
    /\ IsAlnumLower(l[Len(l)])
    /\ \A i \in 1..Len(l) : IsAlnumLower(l[i]) \/ l[i] = "-"

MatchesDomain(s) ==
    \E body \in DollarBodies(s) :
        LET labels == Split(body, ".")
        IN  \A i \in 1..Len(labels) : IsDnsLabel(labels[i])

validate_domain(ns) ==
    IF IsNone(ns.domain) THEN Ok(ns)
    ELSE IF ~MatchesDomain(Val(ns.domain)) THEN Raise(ns, InvalidValue, 114)
    ELSE Ok(ns)

(***************************************************************************)
(* Scalar bounds and version formats                                       *)
(***************************************************************************)
minimum_workers_count == 3
minimum_worker_vm_disk_size_gb == 128
minimum_managed_outbound_ips == 1
maximum_managed_outbound_ips == 20

\* "if not namespace.worker_count": None and 0 are both falsy
validate_worker_count(ns) ==
    IF IsNone(ns.worker_count) \/ Val(ns.worker_count) = 0 THEN Ok(ns)
    ELSE IF Val(ns.worker_count) < minimum_workers_count
         THEN Raise(ns, InvalidValue, 270)
    ELSE Ok(ns)

validate_worker_vm_disk_size_gb(ns) ==
    IF IsNone(ns.worker_vm_disk_size_gb) \/ Val(ns.worker_vm_disk_size_gb) = 0
    THEN Ok(ns)
    ELSE IF Val(ns.worker_vm_disk_size_gb) < minimum_worker_vm_disk_size_gb
         THEN Raise(ns, InvalidValue, 281)
    ELSE Ok(ns)

validate_load_balancer_managed_outbound_ip_count(ns) ==
    LET c == ns.load_balancer_managed_outbound_ip_count
    IN  IF IsNone(c) THEN Ok(ns)
        ELSE IF Val(c) < minimum_managed_outbound_ips
                \/ Val(c) > maximum_managed_outbound_ips
             THEN Raise(ns, InvalidValue, 315)
        ELSE Ok(ns)

CharRange(c, lo, hi) == c \in Digits /\ DigitVal(c) >= lo /\ DigitVal(c) <= hi

\* ^[4-9]{1}\.[0-9]{1,2}\.[0-9]{1,2}$
MatchesVersion(s) ==
    \E body \in DollarBodies(s) : \E m \in 1..2 : \E p \in 1..2 :
        /\ Len(body) = 3 + m + p
        /\ CharRange(body[1], 4, 9)
        /\ body[2] = "."
        /\ IsDigits(SubSeq(body, 3, 2 + m))
        /\ body[3 + m] = "."
        /\ IsDigits(SubSeq(body, 4 + m, 3 + m + p))

\* ^[4-9]{1}\.(1[4-9]|[1-9][0-9])\.[0-9]{1,2}$
MatchesUpgradeableTo(s) ==
    \E body \in DollarBodies(s) : \E p \in 1..2 :
        /\ Len(body) = 5 + p
        /\ CharRange(body[1], 4, 9)
        /\ body[2] = "."
        /\ \/ body[3] = "1" /\ CharRange(body[4], 4, 9)
           \/ CharRange(body[3], 1, 9) /\ CharRange(body[4], 0, 9)
        /\ body[5] = "."
        /\ IsDigits(SubSeq(body, 6, 5 + p))

validate_version_format(ns) ==
    IF ~IsNone(ns.version) /\ ~MatchesVersion(Val(ns.version))
    THEN Raise(ns, InvalidValue, 297)
    ELSE Ok(ns)

\* "if not namespace.upgradeable_to": None and "" are both falsy
validate_upgradeable_to_format(ns) ==
    IF IsNone(ns.upgradeable_to) \/ Val(ns.upgradeable_to) = <<>> THEN Ok(ns)
    ELSE IF ~MatchesUpgradeableTo(Val(ns.upgradeable_to))
         THEN Raise(ns, InvalidValue, 304)
    ELSE Ok(ns)

(***************************************************************************)
(* The namespace is a record; hasattr(namespace, f) is f \in DOMAIN ns.    *)
(***************************************************************************)
hasattr(ns, f) == f \in DOMAIN ns

\* Python truthiness of optional values
TruthyBool(o) == ~IsNone(o) /\ Val(o) = TRUE
TruthyPath(o) == ~IsNone(o) /\ Val(o) # EmptyStr
TruthyChars(o) == ~IsNone(o) /\ Val(o) # <<>>
TruthyList(o) == ~IsNone(o) /\ Len(Val(o)) > 0

\* get_subscription_id(cmd.cli_ctx): the active subscription
SubscriptionId == Str("sub1")

(***************************************************************************)
(* validate_client_id, validate_client_secret: uuid.UUID(client_id)        *)
(***************************************************************************)
StartsWith(s, pat) == Len(s) >= Len(pat) /\ SubSeq(s, 1, Len(pat)) = pat

\* s.replace(pat, '')
RECURSIVE RemoveAll(_, _)
RemoveAll(s, pat) ==
    IF Len(s) = 0 THEN <<>>
    ELSE IF StartsWith(s, pat) THEN RemoveAll(SubSeq(s, Len(pat) + 1, Len(s)), pat)
    ELSE <<s[1]>> \o RemoveAll(Tail(s), pat)

\* s.strip(chars)
RECURSIVE Strip(_, _)
Strip(s, chars) ==
    IF Len(s) = 0 THEN s
    ELSE IF s[1] \in chars THEN Strip(Tail(s), chars)
    ELSE IF s[Len(s)] \in chars THEN Strip(SubSeq(s, 1, Len(s) - 1), chars)
    ELSE s

HexDigits == Digits \cup {"a", "b", "c", "d", "e", "f", "A", "B", "C", "D", "E", "F"}

\* uuid.UUID(hex) returns (no ValueError).  The client ids explored hold hex
\* digits, 'g', '-', braces and the urn:/uuid: prefixes only, for which
\* int(hex, 16) succeeds exactly when every character is a hex digit.
IsUUID(cid) ==
    LET h1 == RemoveAll(RemoveAll(cid, <<"u", "r", "n", ":">>), <<"u", "u", "i", "d", ":">>)
        h2 == RemoveAll(Strip(h1, {"{", "}"}), <<"-">>)
    IN  Len(h2) = 32 /\ \A i \in 1..32 : h2[i] \in HexDigits

validate_client_id(isCreate, ns) ==
    IF IsNone(ns.client_id) THEN Ok(ns)
    ELSE IF hasattr(ns, "enable_managed_identity")
            /\ ns.enable_managed_identity = Some(TRUE)
         THEN Raise(ns, MutuallyExclusive, 46)
    ELSE IF ~IsNone(ns.platform_workload_identities)
         THEN Raise(ns, MutuallyExclusive, 48)
    ELSE IF ~IsUUID(Val(ns.client_id)) THEN Raise(ns, InvalidValue, 52)
    ELSE IF ~TruthyChars(ns.client_secret) THEN Raise(ns, MissingRequired, 55)
    ELSE IF ~isCreate /\ ~IsNone(ns.upgradeable_to)
         THEN Raise(ns, MutuallyExclusive, 57)
    ELSE Ok(ns)

validate_client_secret(isCreate, ns) ==
    IF IsNone(ns.client_secret) THEN Ok(ns)
    ELSE IF hasattr(ns, "enable_managed_identity")
            /\ ns.enable_managed_identity = Some(TRUE)
         THEN Raise(ns, MutuallyExclusive, 66)
    ELSE IF ~IsNone(ns.platform_workload_identities)
         THEN Raise(ns, MutuallyExclusive, 68)
    ELSE IF isCreate /\ ~TruthyChars(ns.client_id)
         THEN Raise(ns, MissingRequired, 70)
    ELSE IF ~isCreate /\ ~IsNone(ns.upgradeable_to)
         THEN Raise(ns, MutuallyExclusive, 72)
    ELSE Ok(ns)

validate_refresh_cluster_credentials(ns) ==
    IF ~TruthyBool(ns.refresh_cluster_credentials) THEN Ok(ns)
    ELSE IF ~IsNone(ns.client_secret) \/ ~IsNone(ns.client_id)
         THEN Raise(ns, MissingRequired, 288)
    ELSE IF ~IsNone(ns.platform_workload_identities)
         THEN Raise(ns, MutuallyExclusive, 290)
    ELSE IF ~IsNone(ns.upgradeable_to) THEN Raise(ns, MutuallyExclusive, 292)
    ELSE Ok(ns)

\* an attribute read of a namespace that lacks it
AttributeError(ns, line) == Raise(ns, "AttributeError", line)

validate_enable_managed_identity(ns) ==
    IF ~hasattr(ns, "enable_managed_identity") THEN AttributeError(ns, 319)
    ELSE IF ~TruthyBool(ns.enable_managed_identity) THEN Ok(ns)
    ELSE IF ~IsNone(ns.client_id) THEN Raise(ns, InvalidValue, 323)
    ELSE IF ~IsNone(ns.client_secret) THEN Raise(ns, InvalidValue, 326)
    ELSE IF ~TruthyList(ns.platform_workload_identities)
         THEN Raise(ns, MissingRequired, 329)
    ELSE IF ~TruthyPath(ns.mi_user_assigned) THEN Raise(ns, MissingRequired, 332)
    ELSE Ok(ns)

validate_delete_identities(ns) ==
    IF IsNone(ns.delete_identities) THEN Ok(ns)
    ELSE IF TruthyBool(ns.delete_identities) /\ TruthyBool(ns.no_wait)
         THEN Raise(ns, MutuallyExclusive, 381)
    ELSE Ok(ns)

(***************************************************************************)
(* validate_visibility, validate_outbound_type                             *)
(***************************************************************************)
Private == <<"P", "r", "i", "v", "a", "t", "e">>
Public == <<"P", "u", "b", "l", "i", "c">>

is_visibility_public(visibility) ==
    visibility = Some(Public) \/ IsNone(visibility)

\* the capitalized value is a local: the namespace keeps what it held
validate_visibility(key, ns) ==
    IF IsNone(ns[key]) THEN Ok(ns)
    ELSE LET visibility == Capitalize(Val(ns[key]))
         IN  IF visibility \notin {Private, Public} THEN Raise(ns, InvalidValue, 239)
             ELSE Ok(ns)

\* variant: the visibility rule applied unless the type is Loadbalancer
validate_outbound_type_strict(ns) ==
    IF ns.outbound_type \notin {Some("UserDefinedRouting"), Some("Loadbalancer"), None}
    THEN Raise(ns, InvalidValue, 140)
    ELSE IF /\ ns.outbound_type # Some("Loadbalancer")
            /\ \/ is_visibility_public(ns.ingress_visibility)
               \/ is_visibility_public(ns.apiserver_visibility)
         THEN Raise(ns, InvalidValue, 147)
    ELSE Ok(ns)

validate_outbound_type(ns) ==
    IF ns.outbound_type \notin {Some("UserDefinedRouting"), Some("Loadbalancer"), None}
    THEN Raise(ns, InvalidValue, 140)
    ELSE IF /\ ns.outbound_type = Some("UserDefinedRouting")
            /\ \/ is_visibility_public(ns.ingress_visibility)
               \/ is_visibility_public(ns.apiserver_visibility)
         THEN Raise(ns, InvalidValue, 147)
    ELSE Ok(ns)

(***************************************************************************)
(* validate_vnet, validate_subnet, validate_subnets                        *)
(***************************************************************************)
\* variant: the assignment the wrong way round
validate_vnet_resource_group_name_swapped(ns) ==
    IF ~TruthyPath(ns.vnet_resource_group_name)
    THEN [ns EXCEPT !.resource_group_name = ns.vnet_resource_group_name]
    ELSE ns

validate_vnet_resource_group_name(ns) ==
    IF ~TruthyPath(ns.vnet_resource_group_name)
    THEN [ns EXCEPT !.vnet_resource_group_name = ns.resource_group_name]
    ELSE ns

\* keyword arguments whose value is None are dropped by resource_id
Kw(key, o) == IF IsNone(o) THEN EmptyDict ELSE (key :> Val(o))

validate_vnet(ns) ==
    LET ns1 == validate_vnet_resource_group_name(ns)
    IN  IF ~TruthyPath(ns1.vnet) THEN Ok(ns1)
        ELSE IF ~is_valid_resource_id(ns1.vnet)
             THEN Ok([ns1 EXCEPT !.vnet = Some(resource_id(
                        ("subscription" :> SubscriptionId)
                        @@ Kw("resource_group", ns1.vnet_resource_group_name)
                        @@ ("namespace" :> Str("Microsoft.Network"))
                        @@ ("type" :> Str("virtualNetworks"))
                        @@ ("name" :> Val(ns1.vnet))))])
        ELSE Ok(ns1)

\* How the remote subnet lookup ends
LookupOutcomes == {"found", "ResourceNotFoundError", "OtherError"}

\* lines 195-205: the lookup statement and what its failure is turned into.
\* outcome "KeyError": the statement fails while building command_args (the
\* parsed id lacks a key), before any request is sent.
\* variant: every failure of the lookup reported as invalid value
LookupAllInvalid(ns, outcome) ==
    WithCalls(IF outcome = "found" THEN Ok(ns) ELSE Raise(ns, InvalidValue, 203),
              <<[api |-> "subnet_show", outcome |-> outcome]>>)

LookupSubnet(ns, outcome) ==
    WithCalls(IF outcome = "found" THEN Ok(ns)
              ELSE IF outcome = "ResourceNotFoundError" THEN Raise(ns, InvalidValue, 203)
              ELSE Raise(ns, Internal, 205),
              <<[api |-> "subnet_show", outcome |-> outcome]>>)

\* the checks of lines 169-205 on the (resolved) subnet id; a key the parsed
\* id lacks is a KeyError, which only the try block of line 195 catches
CheckSubnet(ns, subnet, outcome) ==
    LET parts == parse_resource_id(Some(subnet))
        has(k) == k \in DOMAIN parts
    IN  IF ~has("subscription") THEN Raise(ns, "KeyError", 171)
        ELSE IF parts["subscription"] # SubscriptionId THEN Raise(ns, InvalidValue, 172)
        ELSE IF ~has("namespace") THEN Raise(ns, "KeyError", 176)
        ELSE IF LowerStr(parts["namespace"]) # Str("microsoft.network")
             THEN Raise(ns, InvalidValue, 177)
        ELSE IF ~has("type") THEN Raise(ns, "KeyError", 181)
        ELSE IF LowerStr(parts["type"]) # Str("virtualnetworks")
             THEN Raise(ns, InvalidValue, 182)
        ELSE IF ~has("last_child_num") THEN Raise(ns, "KeyError", 186)
        ELSE IF parts["last_child_num"] # 1 THEN Raise(ns, InvalidValue, 187)
        ELSE IF has("child_namespace_1") THEN Raise(ns, InvalidValue, 190)
        ELSE IF ~has("child_type_1") THEN Raise(ns, "KeyError", 192)
        ELSE IF LowerStr(parts["child_type_1"]) # Str("subnets")
             THEN Raise(ns, InvalidValue, 193)
        ELSE IF ~has("child_name_1") \/ ~has("name") \/ ~has("resource_group")
             THEN LookupSubnet(ns, "KeyError")
        ELSE LookupSubnet(ns, outcome)

validate_subnet(key, ns, outcome) ==
    LET subnet == ns[key]
    IN  IF ~is_valid_resource_id(subnet)
        THEN IF ~TruthyPath(ns.vnet) THEN Raise(ns, MissingRequired, 162)
             ELSE LET ns1 == validate_vnet(ns).ns
                  IN  IF IsNone(subnet) THEN Raise(ns1, "TypeError", 166)
                      ELSE LET full == Val(ns1.vnet) \o <<"subnets">> \o Val(subnet)
                           IN  CheckSubnet([ns1 EXCEPT ![key] = Some(full)],
                                           full, outcome)
        ELSE CheckSubnet(ns, Val(subnet), outcome)

\* line 224: the subnet names, compared ignoring case
SameSubnetName(master_parts, worker_parts) ==
    LowerStr(master_parts["child_name_1"]) = LowerStr(worker_parts["child_name_1"])

\* validate_subnets(master_subnet, worker_subnet) leaves the namespace alone
validate_subnets(ns) ==
    LET master_parts == parse_resource_id(ns.master_subnet)
        worker_parts == parse_resource_id(ns.worker_subnet)
        both(k) == k \in DOMAIN master_parts /\ k \in DOMAIN worker_parts
    IN  IF ~both("resource_group") THEN Raise(ns, "KeyError", 214)
        ELSE IF LowerStr(master_parts["resource_group"])
                    # LowerStr(worker_parts["resource_group"])
             THEN Raise(ns, InvalidValue, 215)
        ELSE IF ~both("name") THEN Raise(ns, "KeyError", 219)
        ELSE IF LowerStr(master_parts["name"]) # LowerStr(worker_parts["name"])
             THEN Raise(ns, InvalidValue, 220)
        ELSE IF ~both("child_name_1") THEN Raise(ns, "KeyError", 224)
        ELSE IF SameSubnetName(master_parts, worker_parts)
             THEN Raise(ns, InvalidValue, 225)
        ELSE Ok(ns)

(***************************************************************************)
(* validate_platform_workload_identities, validate_cluster_identity        *)
(* platform_workload_identities is a list of (name, identity) pairs, held  *)
(* as records [name, resource_id].                                         *)
(***************************************************************************)
\* variant: the id built without the resource group
identity_name_to_resource_id_no_group(ns, name) ==
    resource_id(("subscription" :> SubscriptionId)
                @@ ("namespace" :> Str("Microsoft.ManagedIdentity"))
                @@ ("type" :> Str("userAssignedIdentities"))
                @@ ("name" :> name))

identity_name_to_resource_id(ns, name) ==
    resource_id(("subscription" :> SubscriptionId)
                @@ Kw("resource_group", ns.resource_group_name)
                @@ ("namespace" :> Str("Microsoft.ManagedIdentity"))
                @@ ("type" :> Str("userAssignedIdentities"))
                @@ ("name" :> name))

\* "true", "false", or "KeyError" when the parsed id has no namespace
is_valid_identity_resource_id(rid) ==
    LET parsed == parse_resource_id(Some(rid))
    IN  IF "namespace" \notin DOMAIN parsed THEN "KeyError"
        ELSE IF parsed["namespace"] # Str("Microsoft.ManagedIdentity") THEN "false"
        ELSE IF "type" \notin DOMAIN parsed THEN "KeyError"
        ELSE IF parsed["type"] = Str("userAssignedIdentities") THEN "true"
        ELSE "false"

\* the resource id an identity holds after lines 351-353 / 368-370
NormalizedIdentity(ns, rid) ==
    IF ~is_valid_resource_id(Some(rid)) THEN identity_name_to_resource_id(ns, rid)
    ELSE rid

\* Counter(names): the names counted more than once
Duplicates(list) ==
    {list[i].name : i \in {j \in 1..Len(list) :
                              \E k \in 1..Len(list) : k # j /\ list[k].name = list[j].name}}

\* the loop of lines 350-356 from identity i on; each identity is rewritten
\* in place before it is checked
RECURSIVE NormalizeIdentities(_, _)
NormalizeIdentities(ns, i) ==
    LET list == Val(ns.platform_workload_identities)
    IN  IF i > Len(list) THEN Ok(ns)
        ELSE LET rid == NormalizedIdentity(ns, list[i].resource_id)
                 ns1 == [ns EXCEPT !.platform_workload_identities =
                             Some([list EXCEPT ![i].resource_id = rid])]
                 valid == is_valid_identity_resource_id(rid)
             IN  IF valid = "KeyError" THEN Raise(ns1, "KeyError", 396)
                 ELSE IF valid = "false" THEN Raise(ns1, InvalidValue, 356)
                 ELSE NormalizeIdentities(ns1, i + 1)

validate_platform_workload_identities(isCreate, ns) ==
    IF IsNone(ns.platform_workload_identities) THEN Ok(ns)
    ELSE IF isCreate /\ ~hasattr(ns, "enable_managed_identity")
         THEN AttributeError(ns, 340)
    ELSE IF isCreate /\ ~TruthyBool(ns.enable_managed_identity)
         THEN Raise(ns, MissingRequired, 341)
    ELSE LET duplicates == Duplicates(Val(ns.platform_workload_identities))
         IN  IF duplicates # {}
             THEN [Raise(ns, InvalidValue, 348) EXCEPT !.dups = duplicates]
             ELSE NormalizeIdentities(ns, 1)

validate_cluster_identity(ns) ==
    IF IsNone(ns.mi_user_assigned) THEN Ok(ns)
    ELSE IF ~hasattr(ns, "enable_managed_identity") THEN AttributeError(ns, 365)
    ELSE IF ~TruthyBool(ns.enable_managed_identity)
         THEN Raise(ns, MissingRequired, 366)
    ELSE LET rid == NormalizedIdentity(ns, Val(ns.mi_user_assigned))
             ns1 == [ns EXCEPT !.mi_user_assigned = Some(rid)]
             valid == is_valid_identity_resource_id(rid)
         IN  IF valid = "KeyError" THEN Raise(ns1, "KeyError", 396)
             ELSE IF valid = "false" THEN Raise(ns1, InvalidValue, 373)
             ELSE Ok(ns1)

(***************************************************************************)
(* validate_cluster_resource_group, validate_disk_encryption_set           *)
(***************************************************************************)
\* resource_groups.check_existence: True, False, or an exception of the client
ExistenceOutcomes == {"exists", "absent", "OtherError"}

validate_cluster_resource_group(ns, outcome) ==
    IF IsNone(ns.cluster_resource_group) THEN Ok(ns)
    ELSE LET call == [api |-> "resource_groups.check_existence", outcome |-> outcome]
         IN  IF outcome = "OtherError"
             THEN WithCalls(Raise(ns, "Unwrapped", 83), <<call>>)
             ELSE IF outcome = "exists"
             THEN WithCalls(Raise(ns, InvalidValue, 84), <<call>>)
             ELSE WithCalls(Ok(ns), <<call>>)

\* disk_encryption_sets.get: returns, raises msrestazure's CloudError, or
\* raises an exception of another type
FetchOutcomes == {"found", "CloudError", "OtherError"}

\* only CloudError is caught (line 101)
validate_disk_encryption_set(ns, outcome) ==
    IF IsNone(ns.disk_encryption_set) THEN Ok(ns)
    ELSE IF ~is_valid_resource_id(ns.disk_encryption_set)
         THEN Raise(ns, InvalidValue, 93)
    ELSE LET desid == parse_resource_id(ns.disk_encryption_set)
             call == [api |-> "disk_encryption_sets.get", outcome |-> outcome]
         IN  IF "resource_group" \notin DOMAIN desid THEN Raise(ns, "KeyError", 99)
             ELSE IF "name" \notin DOMAIN desid THEN Raise(ns, "KeyError", 100)
             ELSE IF outcome = "CloudError"
                  THEN WithCalls(Raise(ns, InvalidValue, 102), <<call>>)
             ELSE IF outcome = "OtherError"
                  THEN WithCalls(Raise(ns, "Unwrapped", 99), <<call>>)
             ELSE WithCalls(Ok(ns), <<call>>)

(***************************************************************************)
(* validate_pull_secret.  A pull secret is a text and the number of        *)
(* newlines that follow it; the file system and json.loads are tables      *)
(* over the texts explored.                                                *)
(***************************************************************************)
Text(t, nl) == [text |-> t, trail |-> nl]

\* the files of the machine: a JSON object with a final newline, a JSON list,
\* and a directory (exists, but open() fails)
FileSystem ==
    ("/tmp/ps.json" :> [kind |-> "file", content |-> Text("{\"auths\":{}}", 1)])
    @@ ("/tmp/list.json" :> [kind |-> "file", content |-> Text("[]", 0)])
    @@ ("/tmp" :> [kind |-> "dir", content |-> Text("", 0)])

exists(p) == p.trail = 0 /\ p.text \in DOMAIN FileSystem

\* str.rstrip('\n')
RStripNewlines(p) == [p EXCEPT !.trail = 0]

\* json.loads(p): "dict", "other" (parses, but no object) or "error";
\* whitespace around the document is ignored
JsonKind(p) ==
    CASE p.text = "{\"auths\":{}}" -> "dict"
      [] p.text = "{}" -> "dict"
      [] p.text = "[]" -> "other"
      [] p.text = "1" -> "other"
      [] OTHER -> "error"

validate_pull_secret(ns) ==
    IF IsNone(ns.pull_secret)
    THEN WithCalls(Ok(ns), <<[api |-> "logger.warning", outcome |-> "logged"]>>)
    ELSE LET p == Val(ns.pull_secret)
         IN  IF exists(p) /\ FileSystem[p.text].kind # "file"
             THEN Raise(ns, InvalidValue, 134)
             ELSE LET ns1 == IF exists(p)
                             THEN [ns EXCEPT !.pull_secret =
                                      Some(RStripNewlines(FileSystem[p.text].content))]
                             ELSE ns
                  IN  IF JsonKind(Val(ns1.pull_secret)) # "dict"
                      THEN Raise(ns1, InvalidValue, 134)
                      ELSE Ok(ns1)

(***************************************************************************)
(* The state machine.  The CLI framework builds the namespace from the     *)
(* command line and calls the validators of the command's arguments, in an *)
(* order of its own; the first error ends the invocation.                  *)
(***************************************************************************)
VARIABLES
    given,      \* the namespace as the framework built it from the command line
    namespace,  \* the argument namespace, as the validators have left it
    pre,        \* the namespace as the last validator call received it
    called,     \* the last validator called: <<function, key or mode>>
    result,     \* how that call ended: [kind, line, dups]
    calls,      \* the remote calls (and warnings) that call made
    passed      \* the validators that have returned without error so far

vars == <<given, namespace, pre, called, result, calls, passed>>

NoCall == <<"none", "">>

(***************************************************************************)
(* The namespaces explored.  A validator reads a handful of fields, so the *)
(* command lines explored vary one group of related arguments at a time    *)
(* and leave the other arguments unset.                                    *)
(***************************************************************************)
EmptyNamespace ==
    [pod_cidr |-> None, service_cidr |-> None,
     client_id |-> None, client_secret |-> None,
     enable_managed_identity |-> None, platform_workload_identities |-> None,
     mi_user_assigned |-> None, refresh_cluster_credentials |-> None,
     delete_identities |-> None, no_wait |-> None,
     upgradeable_to |-> None, version |-> None,
     cluster_resource_group |-> None, disk_encryption_set |-> None,
     domain |-> None, pull_secret |-> None,
     outbound_type |-> None, ingress_visibility |-> None,
     apiserver_visibility |-> None,
     master_subnet |-> None, worker_subnet |-> None, vnet |-> None,
     vnet_resource_group_name |-> None, resource_group_name |-> Some(Str("rg")),
     worker_count |-> None, worker_vm_disk_size_gb |-> None,
     load_balancer_managed_outbound_ip_count |-> None]

\* the namespace of a command that declares no --enable-managed-identity
WithoutAttr(ns, f) == [k \in DOMAIN ns \ {f} |-> ns[k]]

\* ---- scalars
MaxWorkerCount == 5
WorkerCounts == (0 - MaxWorkerCount)..MaxWorkerCount
DiskSizes == {0 - 1, 0, 1, minimum_worker_vm_disk_size_gb - 1,
              minimum_worker_vm_disk_size_gb, minimum_worker_vm_disk_size_gb + 1}
OutboundIpCounts == {0 - 1, minimum_managed_outbound_ips - 1,
                     minimum_managed_outbound_ips, minimum_managed_outbound_ips + 1,
                     maximum_managed_outbound_ips - 1, maximum_managed_outbound_ips,
                     maximum_managed_outbound_ips + 1}

\* ---- versions: major.minor.patch over these parts, and some malformed ones
Majors == {<<"3">>, <<"4">>, <<"9">>}
Minors == {<<"0">>, <<"1">>, <<"9">>, <<"1", "0">>, <<"1", "3">>, <<"1", "4">>,
           <<"2", "0">>, <<"9", "9">>, <<"0", "5">>, <<"1", "0", "0">>}
Patches == {<<"0">>, <<"1", "5">>, <<"1", "2", "3">>, <<>>}
Dotted(ma, mi, pa) == ma \o <<".">> \o mi \o <<".">> \o pa
VersionStrings ==
    {Dotted(ma, mi, pa) : ma \in Majors, mi \in Minors, pa \in Patches}
    \cup {Dotted(<<"4">>, mi, <<"0">>) \o <<"\n">> : mi \in {<<"1">>, <<"1", "4">>}}
    \cup {<<>>, <<"4", ".", "1", "4">>, <<"l", "a", "t", "e", "s", "t">>}

\* ---- cidr and domain strings
CidrStrings ==
    {<<"1", "0", ".", "0", ".", "0", ".", "0", "/", "2", "2">>,
     <<"1", "0", ".", "0", ".", "0", ".", "1", "/", "2", "2">>,
     <<"1", "0", ".", "0", ".", "0", ".", "0">>,
     <<"1", "0", ".", "0", ".", "0", ".", "0", "/", "3", "3">>,
     <<"1", "0", ".", "0", ".", "0", "/", "8">>,
     <<"1", "0", ".", "0", ".", "0", ".", "0", "/", "2", "5", "5", ".", "0", ".", "0", ".", "0">>,
     <<"2", "5", "6", ".", "0", ".", "0", ".", "0", "/", "8">>,
     <<>>}
DomainStrings ==
    {<<"a", "r", "o", ".", "i", "o">>, <<"a", "-", "b">>, <<"-", "a">>,
     <<"A", ".", "i", "o">>, <<"a", ".", ".", "b">>, <<>>}

\* ---- credentials
HexRun(n) == [i \in 1..n |-> "a"]
GoodUuid == HexRun(8) \o <<"-">> \o HexRun(4) \o <<"-">> \o HexRun(4) \o <<"-">>
            \o HexRun(4) \o <<"-">> \o HexRun(12)
ClientIds == {<<>>, GoodUuid, <<"{">> \o GoodUuid \o <<"}">>, HexRun(31) \o <<"g">>}
ClientSecrets == {<<>>, <<"s">>}
UpgradeTarget == <<"4", ".", "1", "4", ".", "0">>

\* ---- resource ids
ArmId(sub, rg, ns, type, name) ==
    <<"", "subscriptions", sub, "resourceGroups", rg, "providers", ns, type, name>>
VnetId(rg, name) == ArmId("sub1", rg, "Microsoft.Network", "virtualNetworks", name)
SubnetId(rg, vnet, name) == VnetId(rg, vnet) \o <<"subnets", name>>
IdentityId(name) ==
    ArmId("sub1", "rg", "Microsoft.ManagedIdentity", "userAssignedIdentities", name)

\* subnet arguments whose validation can succeed: bare names and full ids
ResolvableSubnets ==
    {<<"a">>, <<"A">>, <<"b">>, <<"a", "b">>,
     SubnetId("rg", "vnet", "a"), SubnetId("RG", "VNET", "A"),
     SubnetId("rg", "vnet", "b"), SubnetId("rg2", "vnet", "b"),
     SubnetId("rg", "vnet2", "b"),
     <<"", "subscriptions", "sub1", "resourceGroups", "rg", "providers",
       "MICROSOFT.NETWORK", "VirtualNetworks", "vnet", "Subnets", "b">>}

\* subnet arguments that some check rejects
MalformedSubnets ==
    {EmptyStr,
     <<"", "subscriptions", "sub2", "resourceGroups", "rg", "providers",
       "Microsoft.Network", "virtualNetworks", "vnet", "subnets", "a">>,
     <<"", "subscriptions", "sub1", "resourceGroups", "rg", "providers",
       "Microsoft.Compute", "virtualNetworks", "vnet", "subnets", "a">>,
     <<"", "subscriptions", "sub1", "resourceGroups", "rg", "providers",
       "Microsoft.Network", "routeTables", "vnet", "subnets", "a">>,
     VnetId("rg", "vnet"),
     SubnetId("rg", "vnet", "a") \o <<"ipConfigurations", "c">>,
     VnetId("rg", "vnet") \o <<"providers", "Microsoft.Compute", "subnets", "a">>,
     VnetId("rg", "vnet") \o <<"routes", "a">>,
     <<"", "subscriptions", "sub1", "providers",
       "Microsoft.Network", "virtualNetworks", "vnet", "subnets", "a">>,
     <<"", "subscriptions", "sub1", "resourceGroups", "rg">>}

SubnetArgs == {None} \cup {Some(x) : x \in ResolvableSubnets \cup MalformedSubnets}
VnetArgs == {None, Some(EmptyStr), Some(<<"vnet">>), Some(VnetId("rg", "vnet")),
             Some(VnetId("RG", "VNET")),
             Some(<<"", "subscriptions", "sub1", "resourceGroups", "rg">>)}

\* ---- identities
MaxIdentities == 2
IdentityNames == {"operator1", "operator2"}
IdentityIds ==
    {<<"id1">>, EmptyStr, IdentityId("id2"),
     ArmId("sub1", "rg", "Microsoft.Network", "virtualNetworks", "vnet")}
Identities == [name : IdentityNames, resource_id : IdentityIds]
IdentityLists ==
    UNION {[1..n -> Identities] : n \in 0..MaxIdentities}
ClusterIdentities == {None} \cup {Some(x) : x \in IdentityIds}
ManagedIdentityFlags == {None, Some(FALSE), Some(TRUE)}

\* ---- visibility
VisibilityArgs ==
    {None,
     Some(Private), Some(<<"p", "r", "i", "v", "a", "t", "e">>),
     Some(<<"P", "R", "I", "V", "A", "T", "E">>),
     Some(Public), Some(<<"p", "u", "b", "l", "i", "c">>),
     Some(<<"P", "U", "B", "L", "I", "C">>),
     Some(<<"i", "n", "t", "e", "r", "n", "a", "l">>), Some(<<>>)}
OutboundTypes == {None, Some("UserDefinedRouting"), Some("Loadbalancer"),
                  Some("userdefinedrouting")}

\* ---- pull secrets and remote resources
PullSecrets ==
    {Text("{\"auths\":{}}", 0), Text("{\"auths\":{}}", 1), Text("[]", 0),
     Text("{", 0), Text("/tmp/ps.json", 0), Text("/tmp/ps.json", 1),
     Text("/tmp/list.json", 0), Text("/tmp", 0), Text("/tmp/none.json", 0)}
DiskEncryptionSets ==
    {<<"des">>,
     ArmId("sub1", "rg", "Microsoft.Compute", "diskEncryptionSets", "des"),
     <<"", "subscriptions", "sub1", "resourceGroups", "rg">>,
     <<"", "subscriptions", "sub1", "providers", "Microsoft.Compute",
       "diskEncryptionSets", "des">>}

\* one scalar, format or lookup argument given
ScalarNamespaces ==
    {[EmptyNamespace EXCEPT !.worker_count = Some(n)] : n \in WorkerCounts}
    \cup {[EmptyNamespace EXCEPT !.worker_vm_disk_size_gb = Some(n)] : n \in DiskSizes}
    \cup {[EmptyNamespace EXCEPT !.load_balancer_managed_outbound_ip_count = Some(n)] :
             n \in OutboundIpCounts}
    \cup {[EmptyNamespace EXCEPT !.pod_cidr = Some(c)] : c \in CidrStrings}
    \cup {[EmptyNamespace EXCEPT !.service_cidr = Some(c)] : c \in CidrStrings}
    \cup {[EmptyNamespace EXCEPT !.domain = Some(d)] : d \in DomainStrings}
    \cup {[EmptyNamespace EXCEPT !.pull_secret = Some(p)] : p \in PullSecrets}
    \cup {[EmptyNamespace EXCEPT !.cluster_resource_group = Some(Str("aro-rg"))]}
    \cup {[EmptyNamespace EXCEPT !.disk_encryption_set = Some(d)] :
             d \in DiskEncryptionSets}
    \cup {[EmptyNamespace EXCEPT !.delete_identities = d, !.no_wait = w] :
             d \in ManagedIdentityFlags, w \in ManagedIdentityFlags}

\* --version and --upgradeable-to
VersionNamespaces ==
    {[EmptyNamespace EXCEPT !.version = v, !.upgradeable_to = u] :
        v \in {None} \cup {Some(s) : s \in VersionStrings},
        u \in {None, Some(UpgradeTarget)}}
    \cup {[EmptyNamespace EXCEPT !.version = v, !.upgradeable_to = Some(s)] :
            s \in VersionStrings, v \in {None}}
    \cup {[EmptyNamespace EXCEPT !.version = Some(s), !.upgradeable_to = Some(s)] :
            s \in VersionStrings}

\* --outbound-type, --ingress-visibility, --apiserver-visibility
VisibilityNamespaces ==
    {[EmptyNamespace EXCEPT !.outbound_type = o, !.ingress_visibility = i,
                            !.apiserver_visibility = a] :
        o \in OutboundTypes, i \in VisibilityArgs, a \in VisibilityArgs}

\* service principal and managed identity arguments
CredentialNamespaces ==
    {[EmptyNamespace EXCEPT !.client_id = c, !.client_secret = s,
                            !.enable_managed_identity = e,
                            !.platform_workload_identities = w,
                            !.mi_user_assigned = m, !.upgradeable_to = u,
                            !.refresh_cluster_credentials = r] :
        c \in {None} \cup {Some(x) : x \in ClientIds},
        s \in {None} \cup {Some(x) : x \in ClientSecrets},
        e \in ManagedIdentityFlags,
        w \in {None, Some(<<>>),
               Some(<<[name |-> "operator1", resource_id |-> IdentityId("id2")]>>)},
        m \in {None, Some(IdentityId("id2"))},
        u \in {None, Some(UpgradeTarget)},
        r \in {None, Some(TRUE)}}

\* platform workload identities and the cluster identity
IdentityNamespaces ==
    {[EmptyNamespace EXCEPT !.enable_managed_identity = e,
                            !.platform_workload_identities = Some(w)] :
        e \in ManagedIdentityFlags, w \in IdentityLists}
    \cup {[EmptyNamespace EXCEPT !.enable_managed_identity = e,
                                 !.mi_user_assigned = m, !.resource_group_name = g] :
            e \in ManagedIdentityFlags, m \in ClusterIdentities,
            g \in {None, Some(Str("rg"))}}

\* one subnet argument, with the vnet arguments
SubnetNamespaces ==
    {[EmptyNamespace EXCEPT ![k] = s, !.vnet = v, !.vnet_resource_group_name = g,
                            !.resource_group_name = r] :
        k \in {"master_subnet", "worker_subnet"}, s \in SubnetArgs, v \in VnetArgs,
        g \in {None, Some(Str("rg2"))}, r \in {None, Some(Str("rg"))}}

\* both subnet arguments
SubnetPairNamespaces ==
    {[EmptyNamespace EXCEPT !.master_subnet = Some(m), !.worker_subnet = Some(w),
                            !.vnet = v] :
        m \in ResolvableSubnets, w \in ResolvableSubnets,
        v \in {None, Some(<<"vnet">>), Some(VnetId("rg", "vnet"))}}

\* commands that declare no --enable-managed-identity (az aro update)
UpdateNamespaces ==
    {WithoutAttr(ns, "enable_managed_identity") :
        ns \in {n \in CredentialNamespaces \cup IdentityNamespaces :
                   IsNone(n.enable_managed_identity)}}

Namespaces ==
    ScalarNamespaces \cup VersionNamespaces \cup VisibilityNamespaces
    \cup CredentialNamespaces \cup IdentityNamespaces \cup UpdateNamespaces
    \cup SubnetNamespaces \cup SubnetPairNamespaces

Init ==
    /\ given \in Namespaces
    /\ namespace = given
    /\ pre = namespace
    /\ called = NoCall
    /\ result = [kind |-> "none", line |-> 0, dups |-> {}]
    /\ calls = <<>>
    /\ passed = {}

(***************************************************************************)
(* One action per validator.  A call is possible while no error has ended  *)
(* the invocation and the validator has not run yet.                       *)
(***************************************************************************)
Call(name, out) ==
    /\ result.kind \in {"none", "ok"}
    /\ name \notin passed
    /\ UNCHANGED given
    /\ namespace' = out.ns
    /\ pre' = namespace
    /\ called' = name
    /\ result' = [kind |-> out.kind, line |-> out.line, dups |-> out.dups]
    /\ calls' = out.calls
    /\ passed' = IF out.kind = "ok" THEN passed \cup {name} ELSE passed

CidrKeys == {"pod_cidr", "service_cidr"}
VisibilityKeys == {"ingress_visibility", "apiserver_visibility"}
SubnetKeys == {"master_subnet", "worker_subnet"}
Mode(isCreate) == IF isCreate THEN "create" ELSE "update"

ValidateCidr ==
    \E key \in CidrKeys : Call(<<"validate_cidr", key>>, validate_cidr(key, namespace))

ValidateClientId ==
    \E isCreate \in BOOLEAN :
        Call(<<"validate_client_id", Mode(isCreate)>>,
             validate_client_id(isCreate, namespace))

ValidateClientSecret ==
    \E isCreate \in BOOLEAN :
        Call(<<"validate_client_secret", Mode(isCreate)>>,
             validate_client_secret(isCreate, namespace))

ValidateClusterResourceGroup ==
    \E outcome \in ExistenceOutcomes :
        Call(<<"validate_cluster_resource_group", "">>,
             validate_cluster_resource_group(namespace, outcome))

ValidateDiskEncryptionSet ==
    \E outcome \in FetchOutcomes :
        Call(<<"validate_disk_encryption_set", "">>,
             validate_disk_encryption_set(namespace, outcome))

ValidateDomain == Call(<<"validate_domain", "">>, validate_domain(namespace))

ValidatePullSecret ==
    Call(<<"validate_pull_secret", "">>, validate_pull_secret(namespace))

ValidateOutboundType ==
    Call(<<"validate_outbound_type", "">>, validate_outbound_type(namespace))

ValidateVisibility ==
    \E key \in VisibilityKeys :
        Call(<<"validate_visibility", key>>, validate_visibility(key, namespace))

ValidateSubnet ==
    \E key \in SubnetKeys : \E outcome \in LookupOutcomes :
        Call(<<"validate_subnet", key>>, validate_subnet(key, namespace, outcome))

ValidateSubnets == Call(<<"validate_subnets", "">>, validate_subnets(namespace))

ValidateVnet == Call(<<"validate_vnet", "">>, validate_vnet(namespace))

ValidateVnetResourceGroupName ==
    Call(<<"validate_vnet_resource_group_name", "">>,
         Ok(validate_vnet_resource_group_name(namespace)))

ValidateWorkerCount ==
    Call(<<"validate_worker_count", "">>, validate_worker_count(namespace))

ValidateWorkerVmDiskSizeGb ==
    Call(<<"validate_worker_vm_disk_size_gb", "">>,
         validate_worker_vm_disk_size_gb(namespace))

ValidateRefreshClusterCredentials ==
    Call(<<"validate_refresh_cluster_credentials", "">>,
         validate_refresh_cluster_credentials(namespace))

ValidateVersionFormat ==
    Call(<<"validate_version_format", "">>, validate_version_format(namespace))

ValidateUpgradeableToFormat ==
    Call(<<"validate_upgradeable_to_format", "">>,
         validate_upgradeable_to_format(namespace))

ValidateLoadBalancerManagedOutboundIpCount ==
    Call(<<"validate_load_balancer_managed_outbound_ip_count", "">>,
         validate_load_balancer_managed_outbound_ip_count(namespace))

ValidateEnableManagedIdentity ==
    Call(<<"validate_enable_managed_identity", "">>,
         validate_enable_managed_identity(namespace))

ValidatePlatformWorkloadIdentities ==
    \E isCreate \in BOOLEAN :
        Call(<<"validate_platform_workload_identities", Mode(isCreate)>>,
             validate_platform_workload_identities(isCreate, namespace))

ValidateClusterIdentity ==
    Call(<<"validate_cluster_identity", "">>, validate_cluster_identity(namespace))

ValidateDeleteIdentities ==
    Call(<<"validate_delete_identities", "">>, validate_delete_identities(namespace))

\* Spec: every validator, called first on every namespace explored
First(A) == called = NoCall /\ A
Next ==
    \/ First(ValidateCidr)
    \/ First(ValidateClientId)
    \/ First(ValidateClientSecret)
    \/ First(ValidateClusterResourceGroup)
    \/ First(ValidateDiskEncryptionSet)
    \/ First(ValidateDomain)
    \/ First(ValidatePullSecret)
    \/ First(ValidateOutboundType)
    \/ First(ValidateVisibility)
    \/ First(ValidateSubnet)
    \/ First(ValidateSubnets)
    \/ First(ValidateVnet)
    \/ First(ValidateVnetResourceGroupName)
    \/ First(ValidateWorkerCount)
    \/ First(ValidateWorkerVmDiskSizeGb)
    \/ First(ValidateRefreshClusterCredentials)
    \/ First(ValidateVersionFormat)
    \/ First(ValidateUpgradeableToFormat)
    \/ First(ValidateLoadBalancerManagedOutboundIpCount)
    \/ First(ValidateEnableManagedIdentity)
    \/ First(ValidatePlatformWorkloadIdentities)
    \/ First(ValidateClusterIdentity)
    \/ First(ValidateDeleteIdentities)
Spec == Init /\ [][Next]_vars

\* SpecSubnets: the subnet and vnet validators and the cross-subnet check of
\* the create command, in every order
NextSubnets == ValidateSubnet \/ ValidateVnet \/ ValidateSubnets
SpecSubnets == Init /\ [][NextSubnets]_vars

\* SpecVisibility: the visibility and outbound-type validators, in every order
NextVisibility == ValidateVisibility \/ ValidateOutboundType
SpecVisibility == Init /\ [][NextVisibility]_vars

(***************************************************************************)
(* Properties.  `called' names the validator that ran last, `pre' is the   *)
(* namespace it received, `namespace' the one it left, `result' how it     *)
(* ended and `calls' the remote calls it made.                             *)
(***************************************************************************)
Failed == result.kind \notin {"none", "ok"}

\* the argument a validator is about
GoverningField(c) ==
    CASE c[1] \in {"validate_cidr", "validate_visibility", "validate_subnet"} -> c[2]
      [] c[1] = "validate_client_id" -> "client_id"
      [] c[1] = "validate_client_secret" -> "client_secret"
      [] c[1] = "validate_cluster_resource_group" -> "cluster_resource_group"
      [] c[1] = "validate_disk_encryption_set" -> "disk_encryption_set"
      [] c[1] = "validate_domain" -> "domain"
      [] c[1] = "validate_outbound_type" -> "outbound_type"
      [] c[1] = "validate_vnet" -> "vnet"
      [] c[1] = "validate_worker_count" -> "worker_count"
      [] c[1] = "validate_worker_vm_disk_size_gb" -> "worker_vm_disk_size_gb"
      [] c[1] = "validate_refresh_cluster_credentials" -> "refresh_cluster_credentials"
      [] c[1] = "validate_version_format" -> "version"
      [] c[1] = "validate_upgradeable_to_format" -> "upgradeable_to"
      [] c[1] = "validate_load_balancer_managed_outbound_ip_count"
            -> "load_balancer_managed_outbound_ip_count"
      [] c[1] = "validate_enable_managed_identity" -> "enable_managed_identity"
      [] c[1] = "validate_platform_workload_identities" -> "platform_workload_identities"
      [] c[1] = "validate_cluster_identity" -> "mi_user_assigned"
      [] c[1] = "validate_delete_identities" -> "delete_identities"
      [] OTHER -> "none"

\* the last call was one of the twenty validators C1 lists, on a namespace
\* whose governing field is None
GoverningFieldIsNone ==
    /\ GoverningField(called) \in DOMAIN pre
    /\ IsNone(pre[GoverningField(called)])

\* C1 as stated: every listed validator, called on a namespace whose
\* governing field is None, raises nothing and leaves every field unchanged.
C1_NoOpWhenGoverningFieldNone ==
    GoverningFieldIsNone => result.kind = "ok" /\ namespace = pre

\* C1 as amended: with its governing field None, every listed validator other
\* than validate_subnet and validate_vnet raises nothing, changes no field and
\* makes no remote call; validate_vnet raises nothing and changes at most
\* vnet_resource_group_name, which takes resource_group_name when it was None
\* or empty; validate_subnet always fails, with MissingRequired when vnet is
\* None or empty and with an unwrapped TypeError otherwise.
C1_NoOpExceptVnetAndSubnet ==
    GoverningFieldIsNone =>
        CASE called[1] = "validate_vnet" ->
                /\ result.kind = "ok"
                /\ namespace =
                     [pre EXCEPT !.vnet_resource_group_name =
                         IF @ \in {None, Some(EmptyStr)} THEN pre.resource_group_name
                         ELSE @]
          [] called[1] = "validate_subnet" ->
                /\ result.kind \in {MissingRequired, "TypeError"}
                /\ result.kind = MissingRequired
                     <=> pre.vnet \in {None, Some(EmptyStr)}
          [] OTHER -> result.kind = "ok" /\ namespace = pre /\ calls = <<>>

\* validate_outbound_type got no outbound type and a Public ingress, and passed
C1_Witness ==
    /\ called = <<"validate_outbound_type", "">>
    /\ IsNone(pre.outbound_type)
    /\ pre.ingress_visibility = Some(Public)
    /\ result.kind = "ok"
    /\ namespace = pre

\* C2: with enable_managed_identity = True and client_id set, validate_client_id
\* (create and update) and validate_enable_managed_identity each fail with
\* MutuallyExclusive, whichever of them is called first.
C2_ManagedIdentityExcludesClientId ==
    (/\ called[1] \in {"validate_client_id", "validate_enable_managed_identity"}
     /\ hasattr(pre, "enable_managed_identity")
     /\ pre.enable_managed_identity = Some(TRUE)
     /\ ~IsNone(pre.client_id))
    => result.kind = MutuallyExclusive

\* major.minor.patch with major one digit 4..9, minor a number in 14..99 and
\* patch a number of one or two digits
IsUpgradeTargetShape(s) ==
    LET parts == Split(s, ".")
    IN  /\ Len(parts) = 3
        /\ Len(parts[1]) = 1 /\ parts[1][1] \in {"4", "5", "6", "7", "8", "9"}
        /\ Len(parts[2]) = 2 /\ IsDigits(parts[2]) /\ ToNat(parts[2]) \in 14..99
        /\ Len(parts[3]) \in 1..2 /\ IsDigits(parts[3])

\* C3: validate_upgradeable_to_format accepts a present (non-empty) string exactly when it
\* is major.minor.patch with major 4..9, minor 14..99 and a patch of one or two
\* digits, and rejects every other one with InvalidValue.
C3_UpgradeableToMinorAtLeast14 ==
    (called[1] = "validate_upgradeable_to_format" /\ TruthyChars(pre.upgradeable_to))
    => /\ result.kind = "ok" <=> IsUpgradeTargetShape(Val(pre.upgradeable_to))
       /\ result.kind \in {"ok", InvalidValue}

\* C4: validate_worker_count passes a present worker_count if and only if it
\* is at least 3; every present value below 3 fails with InvalidValue.
C4_WorkerCountAtLeast3 ==
    (called[1] = "validate_worker_count" /\ ~IsNone(pre.worker_count))
    => IF Val(pre.worker_count) >= 3 THEN result.kind = "ok"
       ELSE result.kind = InvalidValue

\* the id passes the structural checks of validate_subnet: subscription,
\* provider namespace, resource type, exactly one child, no child namespace,
\* child type subnets
PassesStructuralChecks(id) ==
    LET parts == parse_resource_id(Some(id))
    IN  /\ {"subscription", "namespace", "type", "last_child_num", "child_type_1"}
              \subseteq DOMAIN parts
        /\ parts["subscription"] = SubscriptionId
        /\ LowerStr(parts["namespace"]) = Str("microsoft.network")
        /\ LowerStr(parts["type"]) = Str("virtualnetworks")
        /\ parts["last_child_num"] = 1
        /\ "child_namespace_1" \notin DOMAIN parts
        /\ LowerStr(parts["child_type_1"]) = Str("subnets")

\* validate_subnet ran and the id it resolved passes the structural checks
SubnetReachedLookup ==
    /\ called[1] = "validate_subnet"
    /\ ~IsNone(namespace[called[2]])
    /\ PassesStructuralChecks(Val(namespace[called[2]]))

C6_EveryFetchFailureIsInvalidValue ==
    (called[1] = "validate_disk_encryption_set" /\ ~IsNone(pre.disk_encryption_set))
    => IF is_valid_resource_id(pre.disk_encryption_set)
       THEN Len(calls) = 1 =>
               IF calls[1].outcome = "found" THEN result.kind = "ok"
               ELSE result.kind = InvalidValue
       ELSE result.kind = InvalidValue /\ calls = <<>>

\* the names that occur more than once in a list of identities
RepeatedNames(list) ==
    {n \in {list[i].name : i \in 1..Len(list)} :
        Cardinality({i \in 1..Len(list) : list[i].name = n}) > 1}

\* the full id of a bare identity name: active subscription, the namespace's
\* resource group, Microsoft.ManagedIdentity/userAssignedIdentities
FullIdentityId(ns, name) ==
    <<"", "subscriptions">> \o SubscriptionId
    \o <<"resourceGroups">> \o Val(ns.resource_group_name)
    \o <<"providers", "Microsoft.ManagedIdentity", "userAssignedIdentities">> \o name

\* validate_platform_workload_identities ran on a present list, with managed
\* identity enabled if the command is create
IdentitiesChecked ==
    /\ called[1] = "validate_platform_workload_identities"
    /\ ~IsNone(pre.platform_workload_identities)
    /\ called[2] = "create" =>
          hasattr(pre, "enable_managed_identity") /\ pre.enable_managed_identity = Some(TRUE)

\* C7: with a repeated name the call fails with InvalidValue listing exactly
\* the repeated names and changes nothing; with distinct names, after a
\* successful call every bare resource id is the full id built from it and
\* every full resource id is as it was.
C7_IdentitiesNormalized ==
    IdentitiesChecked =>
        LET old == Val(pre.platform_workload_identities)
        IN  IF RepeatedNames(old) # {}
            THEN /\ result.kind = InvalidValue
                 /\ result.dups = RepeatedNames(old)
                 /\ namespace = pre
            ELSE result.kind = "ok" =>
                   LET new == Val(namespace.platform_workload_identities)
                   IN  /\ Len(new) = Len(old)
                       /\ \A i \in 1..Len(old) :
                            /\ new[i].name = old[i].name
                            /\ new[i].resource_id =
                                 IF is_valid_resource_id(Some(old[i].resource_id))
                                 THEN old[i].resource_id
                                 ELSE FullIdentityId(pre, old[i].resource_id)

\* a successful call on two identities, one bare and one full
C7_Witness ==
    /\ IdentitiesChecked
    /\ result.kind = "ok"
    /\ Len(Val(pre.platform_workload_identities)) = 2
    /\ Val(pre.platform_workload_identities)[1].resource_id = <<"id1">>
    /\ Val(pre.platform_workload_identities)[2].resource_id = IdentityId("id2")
    /\ Val(namespace.platform_workload_identities)[1].resource_id = IdentityId("id1")

\* resource group, vnet name and subnet name of a resolved subnet id
\* /subscriptions/s/resourceGroups/g/providers/n/t/vnet/subnets/name
GroupOf(id) == LowerTok(id[5])
VnetOf(id) == LowerTok(id[9])
SubnetOf(id) == LowerTok(id[11])

\* both subnet validators have passed and validate_subnets ran after them
SubnetsCompared ==
    /\ called = <<"validate_subnets", "">>
    /\ {<<"validate_subnet", "master_subnet">>, <<"validate_subnet", "worker_subnet">>}
          \subseteq passed

\* C8: after both validate_subnet calls have passed, validate_subnets fails
\* with InvalidValue if the ids differ in resource group or in vnet name or
\* agree in subnet name (ignoring case) and passes otherwise; two bare names
\* resolved against the same vnet pass exactly when they differ ignoring case.
C8_SubnetsDifferWithinOneVnet ==
    SubnetsCompared =>
        LET m == Val(pre.master_subnet)
            w == Val(pre.worker_subnet)
        IN  /\ IF \/ GroupOf(m) # GroupOf(w)
                  \/ VnetOf(m) # VnetOf(w)
                  \/ SubnetOf(m) = SubnetOf(w)
               THEN result.kind = InvalidValue
               ELSE result.kind = "ok"
            /\ (/\ ~is_valid_resource_id(given.master_subnet)
                /\ ~is_valid_resource_id(given.worker_subnet))
               => (result.kind = "ok"
                     <=> LowerStr(Val(given.master_subnet))
                           # LowerStr(Val(given.worker_subnet)))

\* a visibility that is set and denotes Private
DenotesPrivate(o) == ~IsNone(o) /\ Capitalize(Val(o)) = Private

\* C9: with outbound_type UserDefinedRouting, once both validate_visibility
\* calls and validate_outbound_type have passed, in any order, both
\* visibilities are set and denote Private.
C9_UserDefinedRoutingMeansPrivate ==
    (/\ namespace.outbound_type = Some("UserDefinedRouting")
     /\ {<<"validate_visibility", "ingress_visibility">>,
         <<"validate_visibility", "apiserver_visibility">>,
         <<"validate_outbound_type", "">>} \subseteq passed)
    => /\ DenotesPrivate(namespace.ingress_visibility)
       /\ DenotesPrivate(namespace.apiserver_visibility)

\* the validators that can rewrite the namespace
Rewriters ==
    {"validate_subnet", "validate_vnet", "validate_platform_workload_identities",
     "validate_cluster_identity", "validate_pull_secret"}

\* the fields a rewriting validator may set
RewrittenFields(c) ==
    CASE c[1] = "validate_subnet" -> {c[2], "vnet", "vnet_resource_group_name"}
      [] c[1] = "validate_vnet" -> {"vnet", "vnet_resource_group_name"}
      [] c[1] = "validate_platform_workload_identities" -> {"platform_workload_identities"}
      [] c[1] = "validate_cluster_identity" -> {"mi_user_assigned"}
      [] c[1] = "validate_pull_secret" -> {"pull_secret"}
      [] OTHER -> {}

\* the failing call had nothing to rewrite, or failed before rewriting
FailedBeforeRewrite ==
    CASE called[1] = "validate_subnet" ->
            result.kind = MissingRequired \/ is_valid_resource_id(pre[called[2]])
      [] called[1] = "validate_platform_workload_identities" ->
            result.kind \in {MissingRequired, "AttributeError"} \/ result.dups # {}
      [] called[1] = "validate_cluster_identity" ->
            result.kind \in {MissingRequired, "AttributeError"}
      [] called[1] = "validate_pull_secret" ->
            LET p == Val(pre.pull_secret)
            IN  ~(exists(p) /\ FileSystem[p.text].kind = "file")
      [] OTHER -> FALSE

\* C10 as stated: a rewriting validator that raises leaves the namespace
\* exactly as it was before the call.
C10_FailedCallLeavesNamespace ==
    (called[1] \in Rewriters /\ Failed) => namespace = pre

\* C10 as amended: a failing call of a rewriting validator leaves every field
\* other than the ones it canonicalizes (validate_subnet: its subnet, vnet,
\* vnet_resource_group_name; validate_vnet: vnet, vnet_resource_group_name;
\* validate_platform_workload_identities: the identities' resource ids;
\* validate_cluster_identity: mi_user_assigned; validate_pull_secret:
\* pull_secret) as it was, and leaves the whole namespace as it was when it
\* fails before rewriting: validate_subnet with MissingRequired or on a subnet
\* that already is a full id, the identity validators with MissingRequired, a
\* missing enable_managed_identity attribute or duplicate names,
\* validate_pull_secret on a value that is no readable file.
C10_FailedCallKeepsOtherFields ==
    (called[1] \in Rewriters /\ Failed) =>
        /\ DOMAIN namespace = DOMAIN pre
        /\ \A f \in DOMAIN pre \ RewrittenFields(called) : namespace[f] = pre[f]
        /\ FailedBeforeRewrite => namespace = pre

\* validate_subnet failed after it had stored the resolved subnet id
C10_Witness ==
    /\ called[1] = "validate_subnet"
    /\ Failed
    /\ namespace[called[2]] # pre[called[2]]
    /\ namespace.vnet_resource_group_name # pre.vnet_resource_group_name
=============================================================================
